---- MODULE Spec2Model ----
(***************************************************************************)
(* Model of start_services.py: the launcher that prepares the Supabase     *)
(* checkout, copies the environment file, stops the containers of the      *)
(* selected components and starts the selected stacks.                     *)
(*                                                                         *)
(* One run of main() is modelled.  The program is sequential; pc is its    *)
(* position.  Every external process (git, docker) is an input: its exit   *)
(* code is drawn from ExitCodes by the step that runs it.  The external    *)
(* binaries are assumed to be installed (subprocess.run starts them), and  *)
(* a checkout that exists at launch is assumed to be a complete one (it    *)
(* holds the docker directory).                                            *)
(***************************************************************************)
EXTENDS Naturals, Sequences, FiniteSets

VARIABLES
    pc,                 \* position of main() in the script
    cli,                \* the flags given on the command line
    args,               \* argparse namespace: components, profile
    components_to_stop, \* main(): list built at lines 116-122
    compose_files,      \* stop_existing_containers(): list built at lines 59-67
    supabase_success,   \* main(): result of start_supabase()
    cwd,                \* process working directory, relative to the launch directory
    fs,                 \* the files the script reads and writes
    launch_fs,          \* fs as it was when the script was launched
    trace,              \* external actions issued so far, in order
    stdout              \* lines printed so far

vars == <<pc, cli, args, components_to_stop, compose_files, supabase_success,
          cwd, fs, launch_fs, trace, stdout>>

----------------------------------------------------------------------------
\* Bounds and program constants

MaxExit == 1
ExitCodes == 0..MaxExit

SleepSeconds == 10

Components == {"all", "supabase", "localai"}
Profiles == {"cpu", "gpu-nvidia", "gpu-amd", "none"}
NoFlag == "no-flag"
DefaultArgs == [components |-> "all", profile |-> "cpu"]

\* argparse: a flag that is not given takes its default; a value outside the
\* choices is rejected before main() does anything, so cli holds choices only
CommandLines == [components : Components \cup {NoFlag}, profile : Profiles \cup {NoFlag}]

ParseArgs(line) ==
    [components |-> IF line.components = NoFlag THEN DefaultArgs.components
                    ELSE line.components,
     profile    |-> IF line.profile = NoFlag THEN DefaultArgs.profile
                    ELSE line.profile]

----------------------------------------------------------------------------
\* Sequences of tokens

Has(seq, tok) == \E i \in 1..Len(seq) : seq[i] = tok

HasPair(seq, a, b) == \E i \in 1..(Len(seq) - 1) : seq[i] = a /\ seq[i + 1] = b

Last(seq) == seq[Len(seq)]

Front(seq) == SubSeq(seq, 1, Len(seq) - 1)

----------------------------------------------------------------------------
\* File system: paths are sequences of components below the launch directory

Absent == "absent"
Dir == "dir"
Contents == {"env-A", "env-B"}

RepoDir == <<"supabase">>
DockerDir == <<"supabase", "docker">>
EnvPath == <<"supabase", "docker", ".env">>
EnvExamplePath == <<".env">>

Paths == {RepoDir, DockerDir, EnvPath, EnvExamplePath}

RECURSIVE NormFrom(_, _)
NormFrom(stack, rest) ==
    IF rest = <<>> THEN stack
    ELSE IF rest[1] = ".." /\ stack # <<>> /\ Last(stack) # ".."
         THEN NormFrom(Front(stack), Tail(rest))
         ELSE NormFrom(Append(stack, rest[1]), Tail(rest))

Resolve(dir, rel) == NormFrom(dir, rel)

Exists(f, dir, rel) ==
    LET p == Resolve(dir, rel) IN p \in DOMAIN f /\ f[p] # Absent

\* Fault: the chdir("..") of lines 40 and 45 left out
ChdirUpStay(dir) == dir

ChdirUp(dir) == Resolve(dir, <<"..">>)

ChdirInto(dir, name) == Resolve(dir, <<name>>)

\* Fault: a copy that keeps a destination file that is already there
CopyFileKeep(f, dir, src, dst) ==
    IF f[Resolve(dir, dst)] = Absent
    THEN [f EXCEPT ![Resolve(dir, dst)] = f[Resolve(dir, src)]]
    ELSE f

CopyFile(f, dir, src, dst) ==
    [f EXCEPT ![Resolve(dir, dst)] = f[Resolve(dir, src)]]

CopyTargetOk(f, dir, dst) ==
    LET p == Resolve(dir, dst) IN
    /\ p \in DOMAIN f
    /\ f[p] # Dir
    /\ Front(p) = <<>> \/ (Front(p) \in DOMAIN f /\ f[Front(p)] = Dir)

LaunchFilesystems ==
    { f \in [Paths -> {Absent, Dir} \cup Contents] :
        /\ f[RepoDir] \in {Absent, Dir}
        /\ f[DockerDir] = f[RepoDir]
        /\ f[EnvPath] \in {Absent} \cup Contents
        /\ f[RepoDir] = Absent => f[EnvPath] = Absent
        /\ f[EnvExamplePath] \in {Absent} \cup Contents }

----------------------------------------------------------------------------
\* Commands

GitCloneCmd == <<"git", "clone", "--filter=blob:none", "--no-checkout",
                 "https://github.com/supabase/supabase.git">>
SparseInitCmd == <<"git", "sparse-checkout", "init", "--cone">>
SparseSetCmd == <<"git", "sparse-checkout", "set", "docker">>
CheckoutCmd == <<"git", "checkout", "master">>
GitPullCmd == <<"git", "pull">>
DockerPsCmd == <<"docker", "ps">>
SupabaseComposeFile == "supabase/docker/docker-compose.yml"
LocalComposeFile == "docker-compose.yml"
ComposePrefix == <<"docker", "compose", "-p", "localai">>

\* Fault: the stop names both compose files whatever was selected
ComposeFilesAll(components) ==
    <<"-f", SupabaseComposeFile, "-f", LocalComposeFile>>

ComposeFiles(components) ==
    (IF Has(components, "supabase") THEN <<"-f", SupabaseComposeFile>> ELSE <<>>)
    \o (IF Has(components, "localai") THEN <<"-f", LocalComposeFile>> ELSE <<>>)

DownCmd(files) == ComposePrefix \o files \o <<"down">>

StartSupabaseCmd == ComposePrefix \o <<"-f", SupabaseComposeFile, "up", "-d">>

\* Fault: the default profile treated like none
StartLocalAICmdCpuPlain(profile) ==
    ComposePrefix
    \o (IF profile # "" /\ profile # "none" /\ profile # "cpu"
        THEN <<"--profile", profile>> ELSE <<>>)
    \o <<"-f", LocalComposeFile, "up", "-d">>

StartLocalAICmd(profile) ==
    ComposePrefix
    \o (IF profile # "" /\ profile # "none" THEN <<"--profile", profile>> ELSE <<>>)
    \o <<"-f", LocalComposeFile, "up", "-d">>

----------------------------------------------------------------------------
\* run_command

RunCommand(cmd, check, rc) ==
    [ out    |-> <<(<<"Running:">> \o cmd)>>
                 \o (IF check /\ rc # 0 THEN << <<"Command failed:">> >> ELSE <<>>),
      raised |-> check /\ rc # 0,
      ret    |-> rc = 0 ]

\* An entry of trace: a process that was run (with its exit code), a file copy or a sleep
Issued(op, argv, rc, secs) ==
    [op |-> op, argv |-> argv, cwd |-> cwd, rc |-> rc, secs |-> secs]

----------------------------------------------------------------------------
\* main: the flags of lines 111-113

StartSupabaseFlag(components) == components = "all" \/ components = "supabase"

StartLocalaiFlag(components) == components = "all" \/ components = "localai"

\* Fault: the delay taken whether or not Supabase started
NeedsDelayAlways(success, localai) == localai

NeedsDelay(success, localai) == success /\ localai

TypeOK ==
    /\ args \in [components : Components, profile : Profiles]
    /\ supabase_success \in BOOLEAN
    /\ fs \in [Paths -> {Absent, Dir} \cup Contents]

Init ==
    /\ pc = "main"
    /\ cli \in CommandLines
    /\ args = ParseArgs(cli)
    /\ components_to_stop = <<>>
    /\ compose_files = <<>>
    /\ supabase_success = FALSE
    /\ cwd = <<>>
    /\ fs \in LaunchFilesystems
    /\ launch_fs = fs
    /\ trace = <<>>
    /\ stdout = <<>>

Raise ==
    pc' = "aborted"

\* Faults: a call site passing the other value of check
DefaultCheckOff == FALSE
ProbeCheckStrict == TRUE

\* The value of check at each call of run_command: the default of line 16 for
\* the git commands, False for the docker commands (lines 76, 80, 91, 100)
DefaultCheck == TRUE
ProbeCheck == FALSE
DownCheck == FALSE
StartCheck == FALSE

\* Fault: the test of line 30 inverted
RepoPresentNot(f, dir) == ~Exists(f, dir, RepoDir)

RepoPresent(f, dir) == Exists(f, dir, RepoDir)

\* Fault: the Supabase start of lines 128-133 skipped
AfterStopSkipsSupabase(components) ==
    IF StartLocalaiFlag(components) THEN "start_local_ai" ELSE "complete"

\* Where main() goes after stop_existing_containers (lines 128, 135, 138)
AfterStop(components) ==
    IF StartSupabaseFlag(components) THEN "start_supabase"
    ELSE IF StartLocalaiFlag(components) THEN "start_local_ai"
    ELSE "complete"

AfterSupabase(components) ==
    IF StartLocalaiFlag(components) THEN "start_local_ai" ELSE "complete"

\* main, lines 111-119: the flags, the first component, the call of clone_supabase_repo
Main ==
    /\ pc = "main"
    /\ IF StartSupabaseFlag(args.components)
       THEN /\ components_to_stop' = Append(components_to_stop, "supabase")
            /\ pc' = "clone_supabase_repo"
       ELSE /\ components_to_stop' = components_to_stop
            /\ pc' = "select_localai"
    /\ UNCHANGED <<cli, args, compose_files, supabase_success, cwd, fs, launch_fs,
                   trace, stdout>>

\* clone_supabase_repo, lines 30-31 and 41-43: the branch on the checkout
CloneSupabaseRepo ==
    /\ pc = "clone_supabase_repo"
    /\ IF ~RepoPresent(fs, cwd)
       THEN /\ stdout' = Append(stdout, <<"Cloning the Supabase repository...">>)
            /\ cwd' = cwd
            /\ pc' = "git_clone"
       ELSE /\ stdout' = Append(stdout, <<"Supabase repository already exists, updating...">>)
            /\ cwd' = ChdirInto(cwd, "supabase")
            /\ pc' = "git_pull"
    /\ UNCHANGED <<cli, args, components_to_stop, compose_files, supabase_success,
                   fs, launch_fs, trace>>

\* lines 32-36: git clone, then chdir into the checkout
GitClone ==
    /\ pc = "git_clone"
    /\ \E rc \in ExitCodes :
         LET r == RunCommand(GitCloneCmd, DefaultCheck, rc) IN
         /\ trace' = Append(trace, Issued("run", GitCloneCmd, rc, 0))
         /\ stdout' = stdout \o r.out
         /\ fs' = IF rc = 0 THEN [fs EXCEPT ![Resolve(cwd, RepoDir)] = Dir] ELSE fs
         /\ IF r.raised
            THEN Raise /\ cwd' = cwd
            ELSE pc' = "sparse_init" /\ cwd' = ChdirInto(cwd, "supabase")
    /\ UNCHANGED <<cli, args, components_to_stop, compose_files, supabase_success, launch_fs>>

\* line 37
SparseCheckoutInit ==
    /\ pc = "sparse_init"
    /\ \E rc \in ExitCodes :
         LET r == RunCommand(SparseInitCmd, DefaultCheck, rc) IN
         /\ trace' = Append(trace, Issued("run", SparseInitCmd, rc, 0))
         /\ stdout' = stdout \o r.out
         /\ IF r.raised THEN Raise ELSE pc' = "sparse_set"
    /\ UNCHANGED <<cli, args, components_to_stop, compose_files, supabase_success,
                   cwd, fs, launch_fs>>

\* line 38
SparseCheckoutSet ==
    /\ pc = "sparse_set"
    /\ \E rc \in ExitCodes :
         LET r == RunCommand(SparseSetCmd, DefaultCheck, rc) IN
         /\ trace' = Append(trace, Issued("run", SparseSetCmd, rc, 0))
         /\ stdout' = stdout \o r.out
         /\ IF r.raised THEN Raise ELSE pc' = "git_checkout"
    /\ UNCHANGED <<cli, args, components_to_stop, compose_files, supabase_success,
                   cwd, fs, launch_fs>>

\* lines 39-40: git checkout master fills the sparse directory, then chdir("..")
GitCheckout ==
    /\ pc = "git_checkout"
    /\ \E rc \in ExitCodes :
         LET r == RunCommand(CheckoutCmd, DefaultCheck, rc) IN
         /\ trace' = Append(trace, Issued("run", CheckoutCmd, rc, 0))
         /\ stdout' = stdout \o r.out
         /\ fs' = IF rc = 0 /\ Resolve(cwd, <<"docker">>) \in DOMAIN fs
                  THEN [fs EXCEPT ![Resolve(cwd, <<"docker">>)] = Dir]
                  ELSE fs
         /\ IF r.raised
            THEN Raise /\ cwd' = cwd
            ELSE pc' = "prepare_supabase_env" /\ cwd' = ChdirUp(cwd)
    /\ UNCHANGED <<cli, args, components_to_stop, compose_files, supabase_success, launch_fs>>

\* lines 44-45: git pull in the existing checkout, then chdir("..")
GitPull ==
    /\ pc = "git_pull"
    /\ \E rc \in ExitCodes :
         LET r == RunCommand(GitPullCmd, DefaultCheck, rc) IN
         /\ trace' = Append(trace, Issued("run", GitPullCmd, rc, 0))
         /\ stdout' = stdout \o r.out
         /\ IF r.raised
            THEN Raise /\ cwd' = cwd
            ELSE pc' = "prepare_supabase_env" /\ cwd' = ChdirUp(cwd)
    /\ UNCHANGED <<cli, args, components_to_stop, compose_files, supabase_success,
                   fs, launch_fs>>

\* prepare_supabase_env, lines 47-55
PrepareSupabaseEnv ==
    /\ pc = "prepare_supabase_env"
    /\ IF Exists(fs, cwd, EnvExamplePath)
       THEN /\ stdout' = Append(stdout, <<"Copying .env in root to .env in supabase/docker...">>)
            /\ trace' = Append(trace, Issued("copyfile", EnvExamplePath \o EnvPath, 0, 0))
            /\ IF CopyTargetOk(fs, cwd, EnvPath)
               THEN fs' = CopyFile(fs, cwd, EnvExamplePath, EnvPath) /\ pc' = "select_localai"
               ELSE fs' = fs /\ Raise
       ELSE /\ stdout' = Append(stdout, <<"Warning: .env file not found in the root directory. Supabase might not work correctly.">>)
            /\ pc' = "select_localai"
            /\ UNCHANGED <<fs, trace>>
    /\ UNCHANGED <<cli, args, components_to_stop, compose_files, supabase_success,
                   cwd, launch_fs>>

\* main, lines 121-125: the second component, the call of stop_existing_containers
SelectLocalai ==
    /\ pc = "select_localai"
    /\ components_to_stop' =
         IF StartLocalaiFlag(args.components)
         THEN Append(components_to_stop, "localai")
         ELSE components_to_stop
    /\ pc' = "stop_existing_containers"
    /\ UNCHANGED <<cli, args, compose_files, supabase_success, cwd, fs, launch_fs,
                   trace, stdout>>

\* stop_existing_containers, lines 59-73
StopExistingContainers ==
    /\ pc = "stop_existing_containers"
    /\ compose_files' = ComposeFiles(components_to_stop)
    /\ IF compose_files' = <<>>
       THEN /\ stdout' = Append(stdout, <<"No components selected to stop.">>)
            /\ pc' = AfterStop(args.components)
       ELSE /\ stdout' = Append(stdout, <<"Stopping and removing existing containers for components:">>
                                         \o components_to_stop)
            /\ pc' = "docker_ps"
    /\ UNCHANGED <<cli, args, components_to_stop, supabase_success, cwd, fs, launch_fs, trace>>

StopWarning ==
    << <<"Warning: Couldn't stop existing containers:">>,
       <<"Continuing with startup anyway...">> >>

\* line 76, and the handler of lines 82-84
DockerPs ==
    /\ pc = "docker_ps"
    /\ \E rc \in ExitCodes :
         LET r == RunCommand(DockerPsCmd, ProbeCheck, rc) IN
         /\ trace' = Append(trace, Issued("run", DockerPsCmd, rc, 0))
         /\ IF r.raised
            THEN /\ stdout' = stdout \o r.out \o StopWarning
                 /\ pc' = AfterStop(args.components)
            ELSE /\ stdout' = stdout \o r.out
                 /\ pc' = "docker_down"
    /\ UNCHANGED <<cli, args, components_to_stop, compose_files, supabase_success,
                   cwd, fs, launch_fs>>

\* lines 79-81, and the handler of lines 82-84
DockerDown ==
    /\ pc = "docker_down"
    /\ \E rc \in ExitCodes :
         LET cmd == DownCmd(compose_files)
             r == RunCommand(cmd, DownCheck, rc) IN
         /\ trace' = Append(trace, Issued("run", cmd, rc, 0))
         /\ stdout' = stdout \o r.out \o
                (IF r.raised THEN StopWarning
                 ELSE << <<"Successfully stopped existing containers or none were running.">> >>)
         /\ pc' = AfterStop(args.components)
    /\ UNCHANGED <<cli, args, components_to_stop, compose_files, supabase_success,
                   cwd, fs, launch_fs>>

\* start_supabase, lines 86-91, and main, lines 129-132
StartSupabase ==
    /\ pc = "start_supabase"
    /\ \E rc \in ExitCodes :
         LET r == RunCommand(StartSupabaseCmd, StartCheck, rc) IN
         /\ trace' = Append(trace, Issued("run", StartSupabaseCmd, rc, 0))
         /\ IF r.raised
            THEN /\ stdout' = stdout \o << <<"Starting Supabase services...">> >> \o r.out
                 /\ supabase_success' = supabase_success
                 /\ Raise
            ELSE /\ supabase_success' = r.ret
                 /\ IF NeedsDelay(r.ret, StartLocalaiFlag(args.components))
                    THEN /\ stdout' = stdout \o << <<"Starting Supabase services...">> >> \o r.out
                                      \o << <<"Waiting for Supabase to initialize...">> >>
                         /\ pc' = "sleep"
                    ELSE /\ stdout' = stdout \o << <<"Starting Supabase services...">> >> \o r.out
                         /\ pc' = AfterSupabase(args.components)
    /\ UNCHANGED <<cli, args, components_to_stop, compose_files, cwd, fs, launch_fs>>

\* line 133
Sleep ==
    /\ pc = "sleep"
    /\ trace' = Append(trace, Issued("sleep", <<>>, 0, SleepSeconds))
    /\ pc' = AfterSupabase(args.components)
    /\ UNCHANGED <<cli, args, components_to_stop, compose_files, supabase_success,
                   cwd, fs, launch_fs, stdout>>

\* start_local_ai, lines 93-100, called at line 136
StartLocalAI ==
    /\ pc = "start_local_ai"
    /\ \E rc \in ExitCodes :
         LET cmd == StartLocalAICmd(args.profile)
             r == RunCommand(cmd, StartCheck, rc) IN
         /\ trace' = Append(trace, Issued("run", cmd, rc, 0))
         /\ stdout' = stdout \o << <<"Starting local AI services...">> >> \o r.out
         /\ IF r.raised THEN Raise ELSE pc' = "complete"
    /\ UNCHANGED <<cli, args, components_to_stop, compose_files, supabase_success,
                   cwd, fs, launch_fs>>

\* line 138
Complete ==
    /\ pc = "complete"
    /\ stdout' = Append(stdout, <<"Startup complete for selected components:", args.components>>)
    /\ pc' = "done"
    /\ UNCHANGED <<cli, args, components_to_stop, compose_files, supabase_success,
                   cwd, fs, launch_fs, trace>>

Next ==
    \/ Main
    \/ CloneSupabaseRepo
    \/ GitClone
    \/ SparseCheckoutInit
    \/ SparseCheckoutSet
    \/ GitCheckout
    \/ GitPull
    \/ PrepareSupabaseEnv
    \/ SelectLocalai
    \/ StopExistingContainers
    \/ DockerPs
    \/ DockerDown
    \/ StartSupabase
    \/ Sleep
    \/ StartLocalAI
    \/ Complete

Spec == Init /\ [][Next]_vars

\* The script is one sequential thread: a step that can be taken is taken
FairSpec == Spec /\ WF_vars(Next)

\* Exit status of the interpreter: 1 after an unhandled exception
ExitStatus == IF pc = "aborted" THEN 1 ELSE 0

----------------------------------------------------------------------------
\* Reading the trace

Idx == 1..Len(trace)

IsGit(e) == e.op = "run" /\ e.argv[1] = "git"
IsCloneSeq(e) == e.op = "run" /\ e.argv \in {GitCloneCmd, SparseInitCmd, SparseSetCmd, CheckoutCmd}
IsPull(e) == e.op = "run" /\ e.argv = GitPullCmd
IsCopy(e) == e.op = "copyfile"
IsProbe(e) == e.op = "run" /\ e.argv = DockerPsCmd
IsDocker(e) == e.op = "run" /\ e.argv[1] = "docker"
IsDown(e) == IsDocker(e) /\ Last(e.argv) = "down"
IsUp(e) == IsDocker(e) /\ Has(e.argv, "up")
RefersTo(e, file) == HasPair(e.argv, "-f", file)
IsSupabaseUp(e) == IsUp(e) /\ RefersTo(e, SupabaseComposeFile)
IsLocalUp(e) == IsUp(e) /\ RefersTo(e, LocalComposeFile)
IsSleep(e) == e.op = "sleep"

Some(P(_)) == \E i \in Idx : P(trace[i])
None(P(_)) == \A i \in Idx : ~P(trace[i])
Count(P(_)) == Cardinality({i \in Idx : P(trace[i])})

\* The place of an entry in the order: asset step, copy, probe, stop, start
\* of Supabase, delay, start of the local stack
Rank(e) ==
    IF IsGit(e) THEN 1
    ELSE IF IsCopy(e) THEN 2
    ELSE IF IsProbe(e) THEN 3
    ELSE IF IsDown(e) THEN 4
    ELSE IF IsSupabaseUp(e) THEN 5
    ELSE IF IsSleep(e) THEN 6
    ELSE IF IsLocalUp(e) THEN 7
    ELSE 0

CompletionLine == <<"Startup complete for selected components:", args.components>>
Completed == \E i \in 1..Len(stdout) : stdout[i] = CompletionLine

\* The run was ended by an exception that left clone_supabase_repo
AbortedInAssetStep ==
    /\ pc = "aborted"
    /\ trace # <<>>
    /\ IsGit(Last(trace))
    /\ Last(trace).rc # 0

----------------------------------------------------------------------------
C2_OnlySelected ==
    /\ args.components = "supabase" =>
         /\ None(IsLocalUp)
         /\ \A i \in Idx : IsDown(trace[i]) =>
              /\ RefersTo(trace[i], SupabaseComposeFile)
              /\ ~Has(trace[i].argv, LocalComposeFile)
         /\ pc = "done" => Count(IsDown) = 1 /\ Count(IsSupabaseUp) = 1
    /\ args.components = "localai" =>
         /\ None(IsGit)
         /\ None(IsCopy)
         /\ None(IsSupabaseUp)
         /\ None(IsSleep)
         /\ fs = launch_fs
         /\ \A i \in Idx : IsDown(trace[i]) =>
              /\ RefersTo(trace[i], LocalComposeFile)
              /\ ~Has(trace[i].argv, SupabaseComposeFile)
         /\ pc = "done" => Count(IsDown) = 1 /\ Count(IsLocalUp) = 1

C2_Witness ==
    /\ args.components = "localai"
    /\ pc = "done"
    /\ Some(IsDown)
    /\ Some(IsLocalUp)
    /\ launch_fs[EnvExamplePath] # Absent

\* C3: the run ends with a non-zero exit status only when a command of the
\* initial clone sequence failed; a failing git pull of an existing checkout
\* does not end the run.
C3_OnlyCloneAborts ==
    ExitStatus # 0 =>
        /\ trace # <<>>
        /\ IsCloneSeq(Last(trace))
        /\ Last(trace).rc # 0

\* C4: the delay is SleepSeconds long, happens only when both stacks are
\* selected and the Supabase start exited with 0, and then lies between the
\* Supabase start and the local start.  After a Supabase start that failed
\* there is no delay and the local start is still issued.
C4_Delay ==
    /\ \A k \in Idx : IsSleep(trace[k]) =>
         /\ args.components = "all"
         /\ trace[k].secs = SleepSeconds
         /\ k > 1 /\ IsSupabaseUp(trace[k - 1]) /\ trace[k - 1].rc = 0
         /\ \A j \in 1..k : ~IsLocalUp(trace[j])
    /\ Count(IsSleep) <= 1
    /\ \A j \in Idx : (IsLocalUp(trace[j]) /\ args.components = "all") =>
         \E i \in 1..(j - 1) :
            /\ IsSupabaseUp(trace[i])
            /\ IF trace[i].rc = 0
               THEN j = i + 2 /\ IsSleep(trace[i + 1])
               ELSE j = i + 1 /\ None(IsSleep)
    /\ (args.components = "all" /\ pc = "done") => Some(IsLocalUp)
    /\ args.components # "all" => None(IsSleep) /\ pc # "sleep"

C4_Witness ==
    /\ pc = "done"
    /\ Some(IsSleep)
    /\ IsLocalUp(Last(trace))

\* C5: a docker command that exits with a non-zero code raises nothing: no run
\* that issued a docker command is aborted; after the probe, whatever its exit
\* code, the stop is issued, after the stop every selected start is issued,
\* and every run that issued the probe reaches the completion message.
C5_DockerFailuresContinue ==
    /\ [](pc = "aborted" => None(IsDocker))
    /\ [](\A i \in Idx : IsProbe(trace[i]) =>
             \/ pc = "docker_down"
             \/ i < Len(trace) /\ IsDown(trace[i + 1]))
    /\ [](\A i \in Idx : IsDown(trace[i]) =>
             \/ pc \in {"start_supabase", "sleep", "start_local_ai", "complete"}
             \/ /\ pc = "done"
                /\ StartSupabaseFlag(args.components) => Some(IsSupabaseUp)
                /\ StartLocalaiFlag(args.components) => Some(IsLocalUp))
    /\ [](pc = "start_local_ai" => StartLocalaiFlag(args.components))
    /\ (Some(IsProbe) ~> (pc = "done" /\ Completed))

C5_Witness ==
    /\ pc = "done"
    /\ Completed
    /\ \A i \in Idx : IsDocker(trace[i]) => trace[i].rc # 0
    /\ Count(IsDocker) = 4

\* C6: a command of the clone sequence that exits with a non-zero code is the
\* last thing the run does: the run is aborted, nothing is issued after it,
\* the completion message is not printed, and what git clone created stays.
C6_CloneFailureAborts ==
    \A i \in Idx : (IsCloneSeq(trace[i]) /\ trace[i].rc # 0) =>
        /\ i = Len(trace)
        /\ pc = "aborted"
        /\ ExitStatus = 1
        /\ None(IsCopy) /\ None(IsDocker) /\ None(IsSleep)
        /\ ~Completed
        /\ fs[EnvPath] = launch_fs[EnvPath]
        /\ (\E j \in Idx : trace[j].argv = GitCloneCmd /\ trace[j].rc = 0)
              => fs[RepoDir] = Dir

C6_Witness ==
    /\ pc = "aborted"
    /\ Last(trace).argv = SparseSetCmd
    /\ fs[RepoDir] = Dir
    /\ launch_fs[RepoDir] = Absent

\* C7: the local start carries "--profile p" exactly when the profile p is not
\* none (p is cpu when no --profile flag is given); the Supabase start and the
\* stop never carry a profile selector.
C7_ProfileSelector ==
    \A i \in Idx :
        /\ IsLocalUp(trace[i]) =>
             /\ args.profile # "none" =>
                  /\ trace[i].argv = ComposePrefix \o <<"--profile", args.profile>>
                                       \o <<"-f", LocalComposeFile, "up", "-d">>
                  /\ Cardinality({k \in 1..Len(trace[i].argv) :
                                    trace[i].argv[k] = "--profile"}) = 1
             /\ args.profile = "none" => ~Has(trace[i].argv, "--profile")
             /\ cli.profile = NoFlag => HasPair(trace[i].argv, "--profile", "cpu")
             /\ cli.profile # NoFlag => args.profile = cli.profile
        /\ (IsSupabaseUp(trace[i]) \/ IsDown(trace[i])) =>
             /\ ~Has(trace[i].argv, "--profile")
             /\ \A p \in Profiles : ~Has(trace[i].argv, p)

C7_Witness ==
    /\ cli.profile = NoFlag
    /\ pc = "done"
    /\ HasPair(Last(trace).argv, "--profile", "cpu")
    /\ Some(IsSupabaseUp)

\* C8: when supabase is selected, once clone_supabase_repo has run a command,
\* that command belongs to the clone sequence if the checkout was absent at
\* launch and is git pull if it was present; never both, and never the other.
C8_CloneOrPull ==
    /\ launch_fs[RepoDir] = Dir => None(IsCloneSeq)
    /\ launch_fs[RepoDir] = Absent => None(IsPull)
    /\ Count(IsPull) <= 1
    /\ (StartSupabaseFlag(args.components)
        /\ pc \notin {"main", "clone_supabase_repo", "git_clone", "git_pull"}) =>
          /\ launch_fs[RepoDir] = Dir => Count(IsPull) = 1
          /\ launch_fs[RepoDir] = Absent =>
               \E i \in Idx : trace[i].argv = GitCloneCmd
    /\ ~StartSupabaseFlag(args.components) => None(IsGit)

C8_Witness ==
    /\ launch_fs[RepoDir] = Dir
    /\ pc = "done"
    /\ Some(IsPull)
    /\ None(IsCloneSeq)

\* C9: when supabase is selected and prepare_supabase_env has run: without a
\* root .env nothing is copied, the warning is printed, the run is not aborted
\* and reaches the stop and the starts; with a root .env, supabase/docker/.env
\* holds the contents of the root .env, whatever it held before.
AfterPrepare ==
    /\ StartSupabaseFlag(args.components)
    /\ pc \in {"select_localai", "stop_existing_containers", "docker_ps", "docker_down",
               "start_supabase", "sleep", "start_local_ai", "complete", "done", "aborted"}
    /\ ~AbortedInAssetStep

EnvWarning ==
    <<"Warning: .env file not found in the root directory. Supabase might not work correctly.">>

Warned == \E i \in 1..Len(stdout) : stdout[i] = EnvWarning

C10_WorkingDirectory ==
    /\ cwd # <<>> => pc \in {"git_pull", "sparse_init", "sparse_set", "git_checkout", "aborted"}
    /\ pc = "prepare_supabase_env" => cwd = <<>>
    /\ \A i \in Idx : (IsCopy(trace[i]) \/ IsDocker(trace[i]) \/ IsSleep(trace[i])) =>
         trace[i].cwd = <<>>
    /\ \A i \in Idx : (IsGit(trace[i]) /\ trace[i].argv # GitCloneCmd) =>
         trace[i].cwd = RepoDir

C10_Witness ==
    /\ pc = "done"
    /\ \E i \in Idx : trace[i].argv = CheckoutCmd /\ trace[i].cwd = RepoDir
    /\ Some(IsCopy)
    /\ Some(IsLocalUp)

====
